---------------------------- MODULE Spec2Model ----------------------------
(***************************************************************************)
(* Model of the probe filtering and selection engine of                    *)
(* targeted_probe_design.py: MUSiCC annotation of blast hits, the hits     *)
(* table and its filter view, the export of the final probe sets and the   *)
(* driver main_pipe.                                                       *)
(*                                                                         *)
(* Strings are sequences of one-character strings, so that substring       *)
(* search, SQL LIKE and the regular expression are computed, not assumed.  *)
(***************************************************************************)
EXTENDS Integers, Sequences, FiniteSets, TLC

(***************************************************************************)
(* Bounds of the model.                                                    *)
(***************************************************************************)
MaxPatterns == 2      \* longest configured pattern list (musicc_list, trna_list)
MaxIdLen == 2         \* longest subject id drawn for the annotation check
MaxRows == 2          \* most rows of a hits table
MaxView == 3          \* most rows of the filter view at an export
MaxAmount == 3        \* largest final_probe_amount
MaxBlast == 2         \* most hits blastn returns for a cluster

(***************************************************************************)
(* Strings.                                                                *)
(***************************************************************************)
Alphabet == {"t", "T", "m", "g"}

SeqsUpTo(S, n) == UNION {[1..k -> S] : k \in 0..n}

\* s[i+1 .. i+Len(p)] = p, for a 0-based offset i
MatchesAt(s, p, i) ==
    /\ i + Len(p) <= Len(s)
    /\ \A k \in 1..Len(p) : s[i + k] = p[k]

\* Python's "p in s" for strings
Contains(s, p) == \E i \in 0..Len(s) : MatchesAt(s, p, i)

\* sep.join(parts)
RECURSIVE Join(_, _)
Join(parts, sep) ==
    IF parts = <<>> THEN <<>>
    ELSE IF Len(parts) = 1 THEN parts[1]
    ELSE parts[1] \o sep \o Join(Tail(parts), sep)

\* the pieces of s between occurrences of the one-character separator c
RECURSIVE Split(_, _)
Split(s, c) ==
    IF \A i \in 1..Len(s) : s[i] # c THEN <<s>>
    ELSE LET i == CHOOSE j \in 1..Len(s) :
                      /\ s[j] = c
                      /\ \A k \in 1..(j - 1) : s[k] # c
         IN  <<SubSeq(s, 1, i - 1)>> \o Split(SubSeq(s, i + 1, Len(s)), c)

(***************************************************************************)
(* generate_musicc_regex and the is_musicc flag                            *)
(***************************************************************************)
\* mpatt = '(' + '|'.join(musiccs) + ')'
generate_musicc_regex(musiccs) == <<"(">> \o Join(musiccs, <<"|">>) \o <<")">>

\* re.compile of a pattern "( alt | alt | ... )": the alternatives of its group
RegexAlternatives(mpatt) == Split(SubSeq(mpatt, 2, Len(mpatt) - 1), "|")

\* muser.search(s): some alternative matches at some offset of s
RegexSearch(mpatt, s) ==
    LET alts == RegexAlternatives(mpatt)
    IN  \E a \in 1..Len(alts) : \E i \in 0..Len(s) : MatchesAt(s, alts[a], i)

\* is_musicc = 1 if musicc_re.search(pb[1]) else 0
is_musicc(musiccs, sseqid) ==
    IF RegexSearch(generate_musicc_regex(musiccs), sseqid) THEN 1 ELSE 0

(***************************************************************************)
(* Configuration (CONFIG) and the annotated blast hits                     *)
(***************************************************************************)
gc_min == 40          \* CONFIG gc_percent.min_percent
gc_max == 60          \* CONFIG gc_percent.max_percent
probe_length == 40    \* CONFIG general.probe_length

ClusterIds == {<<"A">>, <<"B">>}

\* The probes fasta of a cluster: probe id -> pct_gc of its sequence.
\* catch_design_probes prefixes every probe id with the cluster id.
ProbeGC(qid) ==
    CASE qid = <<"A", "1">> -> gc_min
      [] qid = <<"A", "2">> -> gc_max
      [] qid = <<"A", "9">> -> gc_max + 1
      [] qid = <<"B", "1">> -> gc_min - 1
      [] OTHER -> gc_min + 1

ProbeIds(cid) == IF cid = <<"A">> THEN {<<"A", "1">>, <<"A", "2">>, <<"A", "9">>}
                 ELSE {<<"B", "1">>}

SubjectIds == {<<"g">>, <<"T", "m">>}

\* one line of blast output, split: qseqid, sseqid, pident, length, qseq
BlastHits(cid) ==
    [qseqid : ProbeIds(cid), sseqid : SubjectIds,
     pident : {99, 100}, length : {probe_length, probe_length + 1}]

\* pb.append(probes_gc[pb[0]]); pb.append(is_musicc), then zip with the header
AnnotateHit(musiccs, pb) ==
    [qseqid |-> pb.qseqid, sseqid |-> pb.sseqid, pident |-> pb.pident,
     length |-> pb.length, qseq |-> <<"seq">> \o pb.qseqid,
     gc_pct |-> ProbeGC(pb.qseqid),
     is_musicc |-> is_musicc(musiccs, pb.sseqid)]

(***************************************************************************)
(* filter_probe_seqs: the DDL of the filter view, as SQL tokens            *)
(***************************************************************************)
Tok(t) == [t |-> t, c |-> <<>>]
CondTok(c) == [t |-> "cond", c |-> c]

\* ' AND '.join(conds)
RECURSIVE JoinAnd(_)
JoinAnd(conds) ==
    IF conds = <<>> THEN <<>>
    ELSE IF Len(conds) = 1 THEN <<conds[1]>>
    ELSE <<conds[1], Tok("AND")>> \o JoinAnd(Tail(conds))

\* trna_wheres = ['sseqid NOT LIKE "%{}%"'.format(t) for t in trna_list]
trna_wheres(trna_list) ==
    [i \in 1..Len(trna_list) |-> CondTok(<<"sseqid_not_like", trna_list[i]>>)]

\* trna_where_def = ' AND (' + ' AND '.join(trna_wheres) + ')'
trna_where_def(trna_list) ==
    <<Tok("AND"), Tok("(")>> \o JoinAnd(trna_wheres(trna_list)) \o <<Tok(")")>>

wheres_NoIdentity(cluster_id, trna_list) ==
    << CondTok(<<"gc_pct_between", gc_min, gc_max>>),
       CondTok(<<"length_eq", probe_length>>),
       CondTok(<<"qseqid_like", cluster_id>>) >> \o trna_wheres(trna_list)

wheres(cluster_id, trna_list) ==
    << CondTok(<<"gc_pct_between", gc_min, gc_max>>),
       CondTok(<<"pident_eq", 100>>),
       CondTok(<<"length_eq", probe_length>>),
       CondTok(<<"qseqid_like", cluster_id>>) >> \o trna_wheres(trna_list)

\* where_def = ' AND '.join(wheres) + trna_where_def
where_def(cluster_id, trna_list) ==
    JoinAnd(wheres(cluster_id, trna_list)) \o trna_where_def(trna_list)

(***************************************************************************)
(* SQLite: parsing and evaluating the WHERE clause                         *)
(*   expr ::= term (AND term)*      term ::= cond | "(" expr ")"           *)
(***************************************************************************)
\* the nesting depth behind token i
ParenDepth(toks, i) ==
    Cardinality({k \in 1..i : toks[k].t = "("})
        - Cardinality({k \in 1..i : toks[k].t = ")"})

\* the token sequences of the grammar: an operand opens the clause and
\* follows every AND and "(", an AND or ")" follows every operand, and
\* the parentheses balance.  "(" ")" with nothing between is a syntax error.
SqlWellFormed(where_toks) ==
    \A toks \in {where_toks} :
        /\ toks # <<>>
        /\ toks[1].t \in {"cond", "("}
        /\ toks[Len(toks)].t \in {"cond", ")"}
        /\ \A i \in 1..(Len(toks) - 1) :
              IF toks[i].t \in {"cond", ")"}
              THEN toks[i + 1].t \in {"AND", ")"}
              ELSE toks[i + 1].t \in {"cond", "("}
        /\ \A i \in 1..Len(toks) : ParenDepth(toks, i) >= 0
        /\ ParenDepth(toks, Len(toks)) = 0

\* LIKE compares ASCII letters without regard to case
LowerChar(ch) ==
    CASE ch = "T" -> "t"
      [] ch = "A" -> "a"
      [] ch = "B" -> "b"
      [] OTHER -> ch
Lower(s) == [i \in 1..Len(s) |-> LowerChar(s[i])]

\* s LIKE "%p%"
LikeContains(s, p) == Contains(Lower(s), Lower(p))
\* s LIKE "p%"
LikePrefix(s, p) == MatchesAt(Lower(s), Lower(p), 0)

CondHolds(c, row) ==
    CASE c[1] = "gc_pct_between" -> c[2] <= row.gc_pct /\ row.gc_pct <= c[3]
      [] c[1] = "pident_eq" -> row.pident = c[2]
      [] c[1] = "length_eq" -> row.length = c[2]
      [] c[1] = "qseqid_like" -> LikePrefix(row.qseqid, c[2])
      [] c[1] = "sseqid_not_like" -> ~LikeContains(row.sseqid, c[2])
      [] OTHER -> FALSE

\* a well-formed clause of ANDs and parentheses holds iff each condition does
WhereHolds(toks, row) ==
    \A i \in 1..Len(toks) : toks[i].t = "cond" => CondHolds(toks[i].c, row)

(***************************************************************************)
(* The cluster store: the hits table and the filter view                   *)
(***************************************************************************)
NoView == <<>>
NoIndex == <<>>
EmptyDb == [table |-> <<>>, view |-> NoView, index |-> NoIndex]

\* Sdb.exec_ddl of "CREATE INDEX IF NOT EXISTS probes_idx ON ... (index_cols)":
\* an existing index is kept as it is
exec_ddl_index(db, index_cols) ==
    IF db.index # NoIndex THEN db ELSE [db EXCEPT !.index = index_cols]

\* Sdb.exec_ddl of "CREATE VIEW IF NOT EXISTS ... WHERE where_toks GROUP BY ...":
\* a syntax error creates nothing; an existing view is kept as it is
exec_ddl_view(db, where_toks) ==
    IF ~SqlWellFormed(where_toks) THEN [db |-> db, ok |-> FALSE]
    ELSE IF db.view # NoView THEN [db |-> db, ok |-> TRUE]
    ELSE [db |-> [db EXCEPT !.view = where_toks], ok |-> TRUE]

\* the columns of the hits table: the blast fields, gc_pct and is_musicc
table_cols == {"qseqid", "sseqid", "pident", "length", "qseq", "gc_pct", "is_musicc"}

\* Sdb.import_data: the rows are appended to the table; a row whose fields
\* are not the table's columns fails the whole batch
import_data(db, rows) ==
    IF \A i \in 1..Len(rows) : DOMAIN rows[i] = table_cols
    THEN [db |-> [db EXCEPT !.table = @ \o rows], ok |-> TRUE]
    ELSE [db |-> db, ok |-> FALSE]

\* every probe id of the model, in the order of the BINARY collation
\* (by character code: "1" < "2" < ... < "9" < "A" < "B")
QidOrder == << <<"A", "1">>, <<"A", "2">>, <<"A", "3">>, <<"A", "4">>,
               <<"A", "5">>, <<"A", "7">>, <<"A", "9">>,
               <<"B", "1">>, <<"B", "7">> >>

\* field_list of the view: the hit's columns, qseq named probe_seq
ViewRow(r) ==
    [qseqid |-> r.qseqid, sseqid |-> r.sseqid, pident |-> r.pident,
     length |-> r.length, gc_pct |-> r.gc_pct, is_musicc |-> r.is_musicc,
     probe_seq |-> r.qseq]

\* WHERE where_def GROUP BY qseqid HAVING count(qseqid)=1, for the group
\* of one qseqid: its row if exactly one row of the table is kept
group_def(db, qid) ==
    LET kept == SelectSeq(db.table,
                          LAMBDA r : r.qseqid = qid /\ WhereHolds(db.view, r))
    IN  IF Len(kept) = 1 THEN <<ViewRow(kept[1])>> ELSE <<>>

\* SELECT ... FROM the view: one row per group, groups in qseqid order
RECURSIVE ViewRowsFrom(_, _)
ViewRowsFrom(db, k) ==
    IF k > Len(QidOrder) THEN <<>>
    ELSE group_def(db, QidOrder[k]) \o ViewRowsFrom(db, k + 1)

ViewRows(db) == ViewRowsFrom(db, 1)

(***************************************************************************)
(* export_final_sets: one class of the final set                           *)
(***************************************************************************)
Classes_Swapped == << [which |-> "normal", where |-> 1],
                      [which |-> "musicc", where |-> 0] >>

\* for which, where in (('normal','0'), ('musicc','1'))
Classes == << [which |-> "normal", where |-> 0],
              [which |-> "musicc", where |-> 1] >>

\* export_bits = '.'.join([cluster_id, 'probes', 'final', which, 'fasta'])
export_bits(cluster_id, which) == <<cluster_id, "probes", "final", which, "fasta">>

FileNames == {export_bits(c, Classes[k].which) : c \in ClusterIds, k \in 1..2}

NoFile == [exists |-> FALSE, content |-> <<>>]

\* write_out_file(text, file, mode='a'): the file is created if it is not
\* there, and the text, when there is any, is added at its end
write_out_file(fs, f, text) ==
    [fs EXCEPT ![f] = [exists |-> TRUE, content |-> @.content \o text]]

\* Sdb.iter_select(dbname, filter_view, where='is_musicc=' + where)
iter_select(db, where) == SelectSeq(ViewRows(db), LAMBDA r : r.is_musicc = where)

\* head = '>' + ';'.join(values but probe_seq); probe_fasta = head, seq, ''
probe_fasta(row) ==
    [head |-> <<">", row.qseqid, row.sseqid, row.pident, row.length,
                row.gc_pct, row.is_musicc>>,
     seq |-> row.probe_seq]

\* final_amount = int(final_probe_amount) or int(CONFIG general.final_probe_amount)
final_amount(final_probe_amount, cfg) ==
    IF final_probe_amount # 0 THEN final_probe_amount ELSE cfg.final_probe_amount

\* random_picks = randomly or CONFIG general.final_probe_random
random_picks(randomly, cfg) == randomly \/ cfg.final_probe_random

sample_universe_NotInflated(record_count, amount) == record_count

\* record_count = record_count if record_count >= final_amount else final_amount
sample_universe(record_count, amount) ==
    IF record_count >= amount THEN record_count ELSE amount

\* random.sample(range(1, n + 1), k): every k-subset of 1..n may be drawn;
\* none when k > n, where it raises ValueError
random_sample(n, k) == {S \in SUBSET (1..n) : Cardinality(S) = k}

\* the choices of row_nums, as sets of numbers
row_nums_choices(record_count, amount, random) ==
    IF random THEN random_sample(sample_universe(record_count, amount), amount)
    ELSE {1..amount}

\* [row for num, row in enumerate(probes_selector) if num in row_nums],
\* from the k-th row on; enumerate counts from 0
RECURSIVE export_rows_from(_, _, _)
export_rows_from(selector, row_nums, k) ==
    IF k > Len(selector) THEN <<>>
    ELSE (IF (k - 1) \in row_nums THEN <<selector[k]>> ELSE <<>>)
            \o export_rows_from(selector, row_nums, k + 1)

export_rows(selector, row_nums) == export_rows_from(selector, row_nums, 1)

\* the body of the loop for one class, row_nums drawn: the files after it
\* and the rows exported
export_class(fs, db, cluster_id, cls, row_nums) ==
    LET export_file == export_bits(cluster_id, cls.which)
        selector == iter_select(db, cls.where)
        fs1 == IF Len(selector) = 0 THEN write_out_file(fs, export_file, <<>>)
               ELSE fs
        rows == export_rows(selector, row_nums)
        text == [n \in 1..Len(rows) |-> probe_fasta(rows[n])]
    IN  [files |-> IF rows = <<>> THEN fs1
                   ELSE write_out_file(fs1, export_file, text),
         rows |-> rows]

(***************************************************************************)
(* State                                                                   *)
(***************************************************************************)
VARIABLES
    CONFIG,     \* the configuration: trna_list, musicc_list, ...
    DB_CFG,     \* the database configuration, one object for the process
    dbs,        \* cluster id -> the cluster's store
    raised,     \* the error the last call raised, "none" if it returned
    hit,        \* the hit annotated last, <<>> before any
    pc,         \* the call that ended last
    files,      \* the working directory: file name -> the file
    exp,        \* the running call of export_final_sets
    mp          \* the running call of main_pipe

vars == <<CONFIG, DB_CFG, dbs, raised, hit, pc, files, exp, mp>>

PatternSet == {<<"m">>, <<"t", "m">>, <<"g">>}
TrnaLists == {<<>>, << <<"t">> >>, << <<"t">>, <<"m">> >>}

DefaultConfig ==
    [trna_list |-> << <<"t">> >>, musicc_list |-> << <<"m">> >>,
     final_probe_amount |-> 1, final_probe_random |-> FALSE,
     blastn_fields |-> <<"qseq">>]

\* DB_CFG as read from the database configuration file: the default
\* columns of the hits table
probes_table_cols == <<"qseqid", "sseqid", "pident", "length", "gc_pct", "is_musicc">>
DefaultDbCfg == [probes_table |-> [cols |-> probes_table_cols]]

NoFiles == [f \in FileNames |-> NoFile]
NoPipe == [outcome |-> "idle", order |-> <<>>, next |-> 1, cur |-> <<>>,
           aligned |-> FALSE, probe_blasts |-> <<>>, logged |-> FALSE]
NoCall == [cluster_id |-> <<>>, final_probe_amount |-> 0, randomly |-> FALSE,
           pos |-> 0, written |-> <<>>, before |-> NoFiles]

(***************************************************************************)
(* Annotation of one hit with is_musicc (targeted_genome_bin_probes)       *)
(***************************************************************************)
InitMusicc ==
    /\ CONFIG \in {[DefaultConfig EXCEPT !.musicc_list = l] :
                      l \in SeqsUpTo(PatternSet, MaxPatterns)}
    /\ DB_CFG = DefaultDbCfg
    /\ dbs = [c \in ClusterIds |-> EmptyDb]
    /\ raised = "none"
    /\ hit = <<>>
    /\ pc = "start"
    /\ files = NoFiles
    /\ exp = NoCall
    /\ mp = NoPipe

annotate_musicc ==
    /\ \E s \in SeqsUpTo(Alphabet, MaxIdLen) :
           hit' = <<s, is_musicc(CONFIG.musicc_list, s)>>
    /\ pc' = "annotate"
    /\ UNCHANGED <<CONFIG, DB_CFG, dbs, raised, files, exp, mp>>

NextMusicc == annotate_musicc
SpecMusicc == InitMusicc /\ [][NextMusicc]_vars

(***************************************************************************)
(* import_blasts_to_db and filter_probe_seqs on the store of cluster A     *)
(***************************************************************************)
InitFilter ==
    /\ CONFIG \in {[DefaultConfig EXCEPT !.trna_list = l] : l \in TrnaLists}
    /\ DB_CFG = DefaultDbCfg
    /\ dbs = [c \in ClusterIds |-> EmptyDb]
    /\ raised = "none"
    /\ hit = <<>>
    /\ pc = "start"
    /\ files = NoFiles
    /\ exp = NoCall
    /\ mp = NoPipe

\* index_cols = ', '.join(table_cols.keys()), table_cols being the cols
\* object of DB_CFG itself
index_cols(db_cfg) == db_cfg.probes_table.cols

\* for fld in blastn_fields: if fld not in table_cols: table_cols[fld] = ''
\* the columns of table_cols after the loop
col_defs(db_cfg, cfg) ==
    db_cfg.probes_table.cols
        \o SelectSeq(cfg.blastn_fields,
                     LAMBDA fld : \A i \in 1..Len(db_cfg.probes_table.cols) :
                                     db_cfg.probes_table.cols[i] # fld)

import_blasts_to_db(cid, blast_hit_list) ==
    LET indexed == exec_ddl_index(dbs[cid], index_cols(DB_CFG))
        r == import_data(indexed, blast_hit_list)
    IN  /\ DB_CFG' = [DB_CFG EXCEPT !.probes_table.cols = col_defs(DB_CFG, CONFIG)]
        /\ dbs' = [dbs EXCEPT ![cid] = r.db]
        /\ raised' = IF r.ok THEN "none" ELSE "ImportError"
        /\ pc' = "import_blasts_to_db"
        /\ UNCHANGED <<CONFIG, hit, files, exp, mp>>

filter_probe_seqs(cid, cluster_id) ==
    LET r == exec_ddl_view(dbs[cid], where_def(cluster_id, CONFIG.trna_list))
    IN  /\ dbs' = [dbs EXCEPT ![cid] = r.db]
        /\ raised' = IF r.ok THEN "none" ELSE "OperationalError"
        /\ pc' = "filter_probe_seqs"
        /\ UNCHANGED <<CONFIG, DB_CFG, hit, files, exp, mp>>

AnnotatedHits(cid) ==
    {AnnotateHit(CONFIG.musicc_list, pb) : pb \in BlastHits(cid)}

ImportStep ==
    \E k \in 1..(MaxRows - Len(dbs[<<"A">>].table)) :
        \E rows \in [1..k -> AnnotatedHits(<<"A">>)] :
            import_blasts_to_db(<<"A">>, rows)

FilterStep == filter_probe_seqs(<<"A">>, <<"A">>)

NextFilter == ImportStep \/ FilterStep
SpecFilter == InitFilter /\ [][NextFilter]_vars

(***************************************************************************)
(* export_final_sets on the store of cluster A, its view created           *)
(***************************************************************************)
Digit == <<"1", "2", "3", "4", "5">>

\* a store whose view holds, in order, one probe of each listed subject
FilteredDb(cfg, subjects) ==
    LET hits == [i \in 1..Len(subjects) |->
                    AnnotateHit(cfg.musicc_list,
                                [qseqid |-> <<"A", Digit[i]>>, sseqid |-> subjects[i],
                                 pident |-> 100, length |-> probe_length])]
    IN  [table |-> hits, view |-> where_def(<<"A">>, cfg.trna_list),
         index |-> probes_table_cols]

\* what an earlier run left in a final file
OldRecord(sseqid) ==
    probe_fasta(ViewRow(AnnotateHit(DefaultConfig.musicc_list,
                 [qseqid |-> <<"A", "9">>, sseqid |-> sseqid,
                  pident |-> 100, length |-> probe_length])))
OldFiles(sseqid) == {NoFile, [exists |-> TRUE, content |-> <<OldRecord(sseqid)>>]}

InitExport ==
    /\ CONFIG \in {[DefaultConfig EXCEPT !.final_probe_random = b,
                                         !.final_probe_amount = n] :
                      b \in BOOLEAN, n \in {1, MaxAmount}}
    /\ DB_CFG = DefaultDbCfg
    /\ \E subjects \in SeqsUpTo({<<"g">>, <<"m">>}, MaxView) :
          dbs = [c \in ClusterIds |->
                    IF c = <<"A">> THEN FilteredDb(CONFIG, subjects) ELSE EmptyDb]
    /\ raised = "none"
    /\ hit = <<>>
    /\ pc = "start"
    /\ \E n \in OldFiles(<<"g">>), m \in OldFiles(<<"m">>) :
          files = [NoFiles EXCEPT ![export_bits(<<"A">>, "normal")] = n,
                                  ![export_bits(<<"A">>, "musicc")] = m]
    /\ \E a \in 0..MaxAmount, r \in BOOLEAN :
          exp = [cluster_id |-> <<"A">>, final_probe_amount |-> a, randomly |-> r,
                 pos |-> 0, written |-> <<>>, before |-> files]
    /\ mp = NoPipe

\* one turn of the loop over the two classes
export_final_sets ==
    /\ exp.cluster_id # <<>>
    /\ exp.pos < Len(Classes)
    /\ raised = "none"
    /\ LET cls == Classes[exp.pos + 1]
           db == dbs[exp.cluster_id]
           export_file == export_bits(exp.cluster_id, cls.which)
           amount == final_amount(exp.final_probe_amount, CONFIG)
           random == random_picks(exp.randomly, CONFIG)
       IN  IF db.view = NoView
           THEN /\ raised' = "OperationalError"
                /\ pc' = "export_final_sets"
                /\ UNCHANGED <<files, exp>>
           ELSE LET record_count == Len(iter_select(db, cls.where))
                    choices == row_nums_choices(record_count, amount, random)
                IN  IF choices = {}
                    THEN /\ raised' = "ValueError"
                         /\ pc' = "export_final_sets"
                         /\ files' = IF record_count = 0
                                      THEN write_out_file(files, export_file, <<>>)
                                      ELSE files
                         /\ UNCHANGED exp
                    ELSE \E row_nums \in choices :
                           LET r == export_class(files, db, exp.cluster_id,
                                                 cls, row_nums)
                           IN  /\ files' = r.files
                               /\ exp' = [exp EXCEPT !.pos = @ + 1,
                                                     !.written = Append(@, r.rows)]
                               /\ pc' = IF exp.pos + 1 = Len(Classes)
                                        THEN "export_final_sets" ELSE pc
                               /\ raised' = "none"
    /\ UNCHANGED <<CONFIG, DB_CFG, dbs, hit, mp>>

NextExport == export_final_sets
SpecExport == InitExport /\ [][NextExport]_vars

(***************************************************************************)
(* main_pipe and targeted_genome_bin_probes                                *)
(***************************************************************************)
\* a cell of text in a column the filter compares with numbers: SQLite
\* orders every text after every number, so the model holds it as a number
\* above every percentage, identity and length
TextCell == 1000

\* the hits blastn may return for the probes of a cluster; probe 7 is one
\* whose id is not a header of the probes fasta.  surplus counts the cells
\* row.split(',') yields beyond the blast fields (a comma inside the last
\* value of the line)
PipeHits(cid) ==
    IF cid = <<"A">>
    THEN { [qseqid |-> <<"A", "1">>, sseqid |-> <<"g">>, pident |-> 100, length |-> probe_length,
             surplus |-> 0],
           [qseqid |-> <<"A", "2">>, sseqid |-> <<"g">>, pident |-> 100, length |-> probe_length,
             surplus |-> 0],
           [qseqid |-> <<"A", "2">>, sseqid |-> <<"m">>, pident |-> 100, length |-> probe_length,
             surplus |-> 0],
           [qseqid |-> <<"A", "7">>, sseqid |-> <<"g">>, pident |-> 100, length |-> probe_length,
             surplus |-> 0] }
    ELSE { [qseqid |-> <<"B", "1">>, sseqid |-> <<"g">>, pident |-> 100, length |-> probe_length,
             surplus |-> 0],
           [qseqid |-> <<"B", "7">>, sseqid |-> <<"m">>, pident |-> 99, length |-> probe_length,
             surplus |-> 0],
           [qseqid |-> <<"B", "1">>, sseqid |-> <<"m">>, pident |-> 100, length |-> probe_length,
             surplus |-> 1] }

\* gbin_dir.glob('*' + gbin_suff): the genome bins found, in some order
GenomeBins == {<<>>, << <<"A">> >>, << <<"B">> >>,
               << <<"A">>, <<"B">> >>, << <<"B">>, <<"A">> >>}

Init ==
    /\ CONFIG \in {[DefaultConfig EXCEPT !.trna_list = l,
                                         !.final_probe_random = b,
                                         !.final_probe_amount = n] :
                      l \in {<<>>, << <<"t">> >>}, b \in BOOLEAN, n \in 1..2}
    /\ DB_CFG = DefaultDbCfg
    /\ dbs = [c \in ClusterIds |-> EmptyDb]
    /\ raised = "none"
    /\ hit = <<>>
    /\ pc = "main_pipe"
    /\ files = NoFiles
    /\ exp = NoCall
    /\ \E bins \in GenomeBins : mp = [NoPipe EXCEPT !.outcome = "running", !.order = bins]

Running == mp.outcome = "running" /\ raised = "none"

\* check_options(): returns, or logs the error and calls sys.exit(1)
check_options ==
    /\ Running /\ pc = "main_pipe"
    /\ pc' = "check_options"
    /\ raised' \in {"none", "SystemExit"}
    /\ UNCHANGED <<CONFIG, DB_CFG, dbs, hit, files, exp, mp>>

\* the blast db is taken or made; a failure is logged and raised again
prepare_blastdb ==
    /\ Running /\ pc = "check_options"
    /\ pc' = "blastdb"
    /\ raised' \in {"none", "Exception"}
    /\ UNCHANGED <<CONFIG, DB_CFG, dbs, hit, files, exp, mp>>

\* the for loop may take its next genome bin
AtLoopHead == pc \in {"blastdb", "targeted_genome_bin_probes"}

\* blast_header: the blast fields, then gc_pct and is_musicc
blast_header == <<"qseqid", "sseqid", "pident", "length", "qseq", "gc_pct", "is_musicc">>

\* the cells of one row of probe_blasts: those of row.split(','), then the
\* two values appended to a row whose probe id is in the probes fasta
RowCells(musiccs, row) ==
    <<row.pb.qseqid, row.pb.sseqid, row.pb.pident, row.pb.length,
      <<"seq">> \o row.pb.qseqid>>
        \o (IF row.pb.surplus = 1 THEN <<TextCell>> ELSE <<>>)
        \o (IF row.annotated
            THEN <<ProbeGC(row.pb.qseqid), is_musicc(musiccs, row.pb.sseqid)>>
            ELSE <<>>)

\* targeted_genome_bin_probes, to the return of blast_clust_probes_on_genome:
\* the external tools fail, or blastn returns its rows
blast_clust_probes_on_genome ==
    /\ Running /\ AtLoopHead
    /\ mp.next <= Len(mp.order)
    /\ LET gbin == mp.order[mp.next]
       IN  \/ /\ raised' = "Exception"
              /\ mp' = [mp EXCEPT !.cur = gbin, !.next = @ + 1, !.aligned = FALSE,
                                   !.probe_blasts = <<>>]
           \/ /\ raised' = "none"
              /\ \E k \in 0..MaxBlast : \E rows \in [1..k -> PipeHits(gbin)] :
                    mp' = [mp EXCEPT !.cur = gbin, !.next = @ + 1, !.aligned = TRUE,
                                     !.probe_blasts =
                                        [i \in 1..k |->
                                           [pb |-> rows[i], annotated |-> FALSE,
                                            vals |-> RowCells(CONFIG.musicc_list,
                                                        [pb |-> rows[i], annotated |-> FALSE])]]]
    /\ pc' = "blast_clust_probes_on_genome"
    /\ UNCHANGED <<CONFIG, DB_CFG, dbs, hit, files, exp>>

\* gc_pct and is_musicc are appended to the hits of the probes read from
\* the probes fasta
annotate_hits ==
    /\ Running /\ pc = "blast_clust_probes_on_genome"
    /\ mp' = [mp EXCEPT !.probe_blasts =
                 [i \in 1..Len(mp.probe_blasts) |->
                    LET pb == mp.probe_blasts[i].pb
                        found == pb.qseqid \in ProbeIds(mp.cur)
                    IN  [pb |-> pb, annotated |-> found,
                         vals |-> RowCells(CONFIG.musicc_list,
                                           [pb |-> pb, annotated |-> found])]]]
    /\ pc' = "annotate"
    /\ UNCHANGED <<CONFIG, DB_CFG, dbs, raised, hit, files, exp>>

\* vals_dict = {f:v for (f,v) in zip(probe_fields, vals)}: zip stops at the
\* end of the shorter list
vals_dict(vals) ==
    LET n == IF Len(vals) < Len(blast_header) THEN Len(vals) ELSE Len(blast_header)
    IN  [f \in {blast_header[i] : i \in 1..n} |->
            vals[CHOOSE i \in 1..n : blast_header[i] = f]]

\* len(probe_fields) == len(probe_blasts[0]), then import_blasts_to_db
import_stage ==
    /\ Running /\ pc = "annotate"
    /\ IF mp.probe_blasts = <<>>
       THEN \* probe_blasts[0] of an empty list
            /\ raised' = "IndexError"
            /\ pc' = "annotate"
            /\ UNCHANGED <<CONFIG, DB_CFG, dbs, hit, files, exp, mp>>
       ELSE IF Len(blast_header) = Len(mp.probe_blasts[1].vals)
       THEN import_blasts_to_db(mp.cur,
                [i \in 1..Len(mp.probe_blasts) |->
                    vals_dict(mp.probe_blasts[i].vals)])
       ELSE \* the mismatch is logged and the function returns
            /\ pc' = "targeted_genome_bin_probes"
            /\ UNCHANGED <<CONFIG, DB_CFG, dbs, raised, hit, files, exp, mp>>

filter_stage ==
    /\ Running /\ pc = "import_blasts_to_db"
    /\ filter_probe_seqs(mp.cur, mp.cur)

\* export_final_sets(clust_db.abspath, cluster_id, final_probe_amount=final_probe_amount)
call_export_final_sets ==
    /\ Running /\ pc = "filter_probe_seqs"
    /\ exp' = [cluster_id |-> mp.cur,
               final_probe_amount |-> CONFIG.final_probe_amount,
               randomly |-> TRUE,
               pos |-> 0, written |-> <<>>, before |-> files]
    /\ pc' = "exporting"
    /\ UNCHANGED <<CONFIG, DB_CFG, dbs, raised, hit, files, mp>>

export_stage ==
    /\ Running /\ pc = "exporting"
    /\ export_final_sets

\* export_final_sets returned: so does targeted_genome_bin_probes
return_to_loop ==
    /\ Running /\ pc = "export_final_sets"
    /\ pc' = "targeted_genome_bin_probes"
    /\ UNCHANGED <<CONFIG, DB_CFG, dbs, raised, hit, files, exp, mp>>

except_clause_NotRaisedAgain ==
    /\ mp.outcome = "running"
    /\ raised \notin {"none", "SystemExit"}
    /\ pc # "except"
    /\ pc' = "targeted_genome_bin_probes"
    /\ raised' = "none"
    /\ UNCHANGED <<CONFIG, DB_CFG, dbs, hit, files, exp, mp>>

\* except Exception as e: log.error(...); raise e
except_clause ==
    /\ mp.outcome = "running"
    /\ raised \notin {"none", "SystemExit"}
    /\ pc # "except"
    /\ pc' = "except"
    /\ UNCHANGED <<CONFIG, DB_CFG, dbs, raised, hit, files, exp, mp>>

\* finally: log.notice('Completed generating targeted probes! ...')
finally_clause ==
    /\ mp.outcome = "running"
    /\ \/ pc = "except"
       \/ raised = "SystemExit"
       \/ raised = "none" /\ AtLoopHead /\ mp.next > Len(mp.order)
    /\ mp' = [mp EXCEPT !.logged = TRUE,
                         !.outcome = IF raised = "none" THEN "returned" ELSE "raised"]
    /\ pc' = "finally"
    /\ UNCHANGED <<CONFIG, DB_CFG, dbs, raised, hit, files, exp>>

Next ==
    \/ check_options
    \/ prepare_blastdb
    \/ blast_clust_probes_on_genome
    \/ annotate_hits
    \/ import_stage
    \/ filter_stage
    \/ call_export_final_sets
    \/ export_stage
    \/ return_to_loop
    \/ except_clause
    \/ finally_clause

Spec == Init /\ [][Next]_vars

\* the process runs on until main_pipe has ended
FairSpec == Spec /\ WF_vars(Next)

(***************************************************************************)
(* Properties of the annotation (SpecMusicc)                               *)
(***************************************************************************)
ListContains(patterns, s) == \E i \in 1..Len(patterns) : Contains(s, patterns[i])

\* C8: the is_musicc flag of a hit is 1 iff its subject id contains at
\* least one configured pattern; with no pattern configured it is 0.
C8_FlagIffPatternContained ==
    hit # <<>> => (hit[2] = 1 <=> ListContains(CONFIG.musicc_list, hit[1]))

(***************************************************************************)
(* Properties of the filter view (SpecFilter)                              *)
(***************************************************************************)
dbA == dbs[<<"A">>]
ViewExists == dbA.view # NoView

\* the conditions of the claim on one hit, substrings compared as written
PassesAsWritten(r) ==
    /\ r.pident = 100
    /\ r.length = probe_length
    /\ gc_min <= r.gc_pct /\ r.gc_pct <= gc_max
    /\ \A i \in 1..Len(CONFIG.trna_list) : ~Contains(r.sseqid, CONFIG.trna_list[i])

\* the same, an excluded substring found whatever the case of its letters
PassesAnyCase(r) ==
    /\ r.pident = 100
    /\ r.length = probe_length
    /\ gc_min <= r.gc_pct /\ r.gc_pct <= gc_max
    /\ \A i \in 1..Len(CONFIG.trna_list) :
          ~Contains(Lower(r.sseqid), Lower(CONFIG.trna_list[i]))

HitsOf(qid) == {i \in 1..Len(dbA.table) : dbA.table[i].qseqid = qid}

C7_EmptyTrnaListViewCreated ==
    (pc = "filter_probe_seqs" /\ CONFIG.trna_list = <<>>) =>
        (ViewExists /\ raised = "none")

(***************************************************************************)
(* Properties of export_final_sets (SpecExport)                            *)
(***************************************************************************)
Min(a, b) == IF a <= b THEN a ELSE b

\* the rows of the view of class k (1: is_musicc=0, 2: is_musicc=1), in view order
Available(k) == SelectSeq(ViewRows(dbA), LAMBDA r : r.is_musicc = k - 1)
Requested == IF exp.final_probe_amount # 0 THEN exp.final_probe_amount
             ELSE CONFIG.final_probe_amount
RandomMode == exp.randomly \/ CONFIG.final_probe_random
Exporting == exp.cluster_id = <<"A">>
\* the loop has finished class k
Exported(k) == Exporting /\ exp.pos >= k
FinalFile(k) == files[<< <<"A">>, "probes", "final",
                         IF k = 1 THEN "normal" ELSE "musicc", "fasta" >>]
FileBefore(k) == exp.before[<< <<"A">>, "probes", "final",
                               IF k = 1 THEN "normal" ELSE "musicc", "fasta" >>]

\* C2: in positional mode with R >= 1 the rows exported for a class are the
\* first min(A, R) rows of the class, in view order.
C2_PositionalFirstRows ==
    \A k \in 1..2 :
        (Exported(k) /\ ~RandomMode /\ Requested >= 1) =>
            exp.written[k] = SubSeq(Available(k), 1,
                                    Min(Len(Available(k)), Requested))

\* C3: in random mode with A >= R >= 1 exactly R records are exported for
\* a class, each from a distinct row of the class.
C3_RandomExactlyR ==
    \A k \in 1..2 :
        (Exported(k) /\ RandomMode /\ Requested >= 1
            /\ Len(Available(k)) >= Requested) =>
            /\ Len(exp.written[k]) = Requested
            /\ \A i, j \in 1..Len(exp.written[k]) :
                  i # j => exp.written[k][i] # exp.written[k][j]
            /\ \A i \in 1..Len(exp.written[k]) :
                  \E n \in 1..Len(Available(k)) : exp.written[k][i] = Available(k)[n]

\* C4: in random mode with 1 <= A < R no error is raised and A records are
\* exported for the class.
C4_UndersuppliedExportsAll ==
    \A k \in 1..2 :
        (Exporting /\ RandomMode /\ 1 <= Len(Available(k))
            /\ Len(Available(k)) < Requested) =>
            /\ raised = "none"
            /\ Exported(k) => Len(exp.written[k]) = Len(Available(k))

\* C5: for a class with no row in the view, in either mode, no error is
\* raised (so the loop goes on to the other class) and the class's file
\* exists after its turn with nothing added to it.
C5_EmptyClassEmptyFile ==
    \A k \in 1..2 :
        (Exporting /\ Len(Available(k)) = 0) =>
            /\ raised = "none"
            /\ Exported(k) =>
                  /\ FinalFile(k).exists
                  /\ FinalFile(k).content = FileBefore(k).content
                  /\ exp.written[k] = <<>>

\* the normal class was empty and had no file; the musicc class was
\* exported after it
C5_Witness ==
    /\ Exported(2)
    /\ Len(Available(1)) = 0
    /\ ~FileBefore(1).exists
    /\ FinalFile(1).exists
    /\ exp.written[2] # <<>>

\* C10: a step of export_final_sets keeps every file that exists, keeps
\* the old content of every file as a prefix of the new, adds records of
\* is_musicc=0 to <cluster_id>.probes.final.normal.fasta only and records of
\* is_musicc=1 to <cluster_id>.probes.final.musicc.fasta only.
AppendsOnlyOwnClass ==
    \A f \in DOMAIN files :
        /\ files[f].exists => files'[f].exists
        /\ Len(files[f].content) <= Len(files'[f].content)
        /\ SubSeq(files'[f].content, 1, Len(files[f].content)) = files[f].content
        /\ \A n \in (Len(files[f].content) + 1)..Len(files'[f].content) :
              LET rec == files'[f].content[n]
              IN  f = << exp.cluster_id, "probes", "final",
                         IF rec.head[7] = 0 THEN "normal" ELSE "musicc", "fasta" >>

C10_AppendOnlyToOwnFile == [][AppendsOnlyOwnClass]_vars

\* records of a class were exported behind what an earlier run left in
\* the file of the class
C10_Witness ==
    /\ Exported(2)
    /\ \E k \in 1..2 :
          /\ exp.written[k] # <<>>
          /\ FileBefore(k).content # <<>>
          /\ Len(FinalFile(k).content) > Len(FileBefore(k).content)

(***************************************************************************)
(* Properties of the pipeline (Spec, FairSpec)                             *)
(***************************************************************************)
\* the processing of the cluster mp.cur, whose alignment returned, has ended
ClusterEnded ==
    /\ mp.cur # <<>>
    /\ mp.aligned
    /\ pc = "targeted_genome_bin_probes" \/ raised # "none"

\* C6: when the processing of a cluster ends both its final files exist,
\* and a cluster without hits has raised no error.
C6_BothFinalFilesExist ==
    ClusterEnded =>
        /\ files[<<mp.cur, "probes", "final", "normal", "fasta">>].exists
        /\ files[<<mp.cur, "probes", "final", "musicc", "fasta">>].exists
        /\ mp.probe_blasts = <<>> => raised = "none"

\* a cluster is begun only from the head of the loop with no error raised,
\* and an error, once raised, stays raised
OneAtATimeAbortOnError ==
    /\ mp'.next # mp.next =>
          /\ mp'.next = mp.next + 1
          /\ pc \in {"blastdb", "targeted_genome_bin_probes"}
          /\ raised = "none"
    /\ raised # "none" => (raised' = raised /\ mp'.next = mp.next)

\* main_pipe ends behind its completion log, raising what was raised
EndsLoggedAndPropagates ==
    /\ mp.outcome \in {"returned", "raised"} => (mp.logged /\ pc = "finally")
    /\ mp.outcome = "returned" => (raised = "none" /\ mp.next = Len(mp.order) + 1)
    /\ mp.outcome = "raised" => raised # "none"

\* C9: clusters are processed one at a time in sequence; once a stage has
\* raised an error no later cluster is started and main_pipe ends raising
\* it; and in every execution the completion log is eventually written.
C9_SequentialAbortAndFinalLog ==
    /\ [][OneAtATimeAbortOnError]_vars
    /\ []EndsLoggedAndPropagates
    /\ <>(mp.logged)

\* a cluster failed while another was still to come, and the log is written
C9_Witness ==
    /\ mp.logged
    /\ mp.outcome = "raised"
    /\ mp.cur # <<>>
    /\ mp.next <= Len(mp.order)


(***************************************************************************)
(* Properties of the import of a cluster's hits (Spec)                     *)
(***************************************************************************)
\* the rows of the cluster in hand whose field count is not the header's
MismatchedRows ==
    {i \in 1..Len(mp.probe_blasts) :
        Len(mp.probe_blasts[i].vals) # Len(blast_header)}

\* the annotation of the cluster in hand is over
Annotated == mp.cur \in ClusterIds /\ pc # "blast_clust_probes_on_genome"

\* C11: if the field count of any hit row of a cluster differs from the
\* field count of the header, no row of that cluster is imported into the
\* hits table, whichever row carries the mismatch.
C11_MismatchAbortsImport ==
    (Annotated /\ MismatchedRows # {}) => dbs[mp.cur].table = <<>>

\* C12: after any sequence of import_blasts_to_db calls, the index of every
\* store covers exactly the declared default columns, never an extra
\* configured blast field, and the declared default columns are what they
\* were before the calls.
C12_IndexOnDefaultColumns ==
    /\ \A c \in ClusterIds : dbs[c].index \in {NoIndex, probes_table_cols}
    /\ DB_CFG.probes_table.cols = probes_table_cols

(***************************************************************************)
(* Properties of the selection mode in the cluster pipeline (Spec)         *)
(***************************************************************************)
\* export_final_sets is running, or has run, for the cluster in hand
PipelineExport == mp.outcome = "running" /\ exp.cluster_id # <<>>

\* the rows of class k the positional choice of the code writes
PositionalRows(k) ==
    export_rows(iter_select(dbs[exp.cluster_id], Classes[k].where),
                1..final_amount(exp.final_probe_amount, CONFIG))

\* C13: in the cluster pipeline the selection mode is the configured
\* final_probe_random: when it is false the rows of every class are the
\* ones the positional choice gives, and when it is true they are sampled.
C13_ModeFollowsConfiguredFlag ==
    PipelineExport =>
        /\ random_picks(exp.randomly, CONFIG) = CONFIG.final_probe_random
        /\ ~CONFIG.final_probe_random =>
              \A k \in 1..Len(exp.written) : exp.written[k] = PositionalRows(k)

(***************************************************************************)
(* Properties of a second run on the store of a cluster (SpecFilter)       *)
(***************************************************************************)
\* the probe candidates of a store: the qseqids of the rows of its view
Candidates(db) == {ViewRows(db)[n].qseqid : n \in 1..Len(ViewRows(db))}

\* a step that imports into the filtered store of a first run the hits the
\* store holds already leaves the candidates of the view as they were
RerunKeepsCandidates ==
    (ViewExists /\ dbA.table # <<>> /\ dbA'.table = dbA.table \o dbA.table)
        => Candidates(dbA') = Candidates(dbA)

\* C14: processing a cluster a second time with the same hits, on the
\* store the first run left, leaves the filter view with the same probe
\* candidates: a sole surviving hit of the first run is still in the view.
C14_RerunLeavesSameView == [][RerunKeepsCandidates]_vars

=============================================================================
